---- MODULE Spec2Model ----
(***************************************************************************)
(* WebSocket relay of deploy/lambda_handler.py: the synchronous entry      *)
(* ($connect, $disconnect, $default), the asynchronous entry (the handler  *)
(* re-invoked with the 'async_processing' marker), the notifier            *)
(* send_message with its process-wide client cache, and the agent          *)
(* invocation client call_a2a_agent.                                       *)
(*                                                                         *)
(* Python values: a dict is a function from the set of its keys; None is   *)
(* the string None; an exception is the name of its class (NoExc when      *)
(* nothing was raised).                                                    *)
(***************************************************************************)
EXTENDS Integers, Sequences, FiniteSets, TLC

\* ------------------------------------------------------------------ bounds
\* Number of handler invocations started from outside (gateway events and
\* direct invocations); each may schedule one more, asynchronous, invocation.
MaxEvents == 2

\* Number of events in the specification of the request pipeline alone.
MaxRequests == 2

\* ------------------------------------------------------------ Python values
None == "<None>"
NoExc == ""
EmptyDict == <<>>

\* dict.get(k, default)
Get(d, k, default) == IF k \in DOMAIN d THEN d[k] ELSE default

\* d without key k
Without(d, k) == [x \in (DOMAIN d) \ {k} |-> d[x]]

\* str(x) inside an f-string
Str(x) == IF x = None THEN "None" ELSE x

\* ---------------------------------------------------------------- constants
\* The ARNs are kept as their '/'-separated segments.
ONBOARDING_AGENT_ARN == <<"arn:aws:bedrock:us-east-1:1:agent", "ONBOARDING">>
PROVISIONING_AGENT_ARN == <<"arn:aws:bedrock:us-east-1:1:agent", "PROVISIONING">>

\* ------------------------------------------------- connection-management client
\* get_apigw_client under a mutation: the client is built again for every
\* event that has an addressing context.
get_apigw_client_rebuilding(event, cache) ==
    IF /\ "requestContext" \in DOMAIN event
       /\ "domainName" \in DOMAIN event["requestContext"]
       /\ "stage" \in DOMAIN event["requestContext"]
    THEN [exc |-> NoExc,
          client |-> "https://" \o event["requestContext"]["domainName"] \o "/"
                         \o event["requestContext"]["stage"],
          cache |-> "https://" \o event["requestContext"]["domainName"] \o "/"
                        \o event["requestContext"]["stage"]]
    ELSE IF cache = None THEN [exc |-> "KeyError", client |-> None, cache |-> cache]
         ELSE [exc |-> NoExc, client |-> cache, cache |-> cache]

\* get_apigw_client: builds the client from the event's domain and stage when
\* the cache is empty (KeyError when the event has no such addressing context)
\* and returns the cached client otherwise.  A client is its endpoint URL.
get_apigw_client(event, cache) ==
    IF cache = None
    THEN IF /\ "requestContext" \in DOMAIN event
            /\ "domainName" \in DOMAIN event["requestContext"]
            /\ "stage" \in DOMAIN event["requestContext"]
         THEN LET domain == event["requestContext"]["domainName"]
                  stage == event["requestContext"]["stage"]
                  endpoint == "https://" \o domain \o "/" \o stage
              IN [exc |-> NoExc, client |-> endpoint, cache |-> endpoint]
         ELSE [exc |-> "KeyError", client |-> None, cache |-> cache]
    ELSE [exc |-> NoExc, client |-> cache, cache |-> cache]

\* post_to_connection succeeds exactly for a connection that is open on the
\* gateway the client addresses; everything else raises (GoneException, ...).
post_to_connection(client, connection_id, open) ==
    [endpoint |-> client, connectionId |-> connection_id] \in open

\* What a call of send_message did: its return value, the exception that left
\* it, the cache afterwards and the attempt as the history records it.
SendResult(ok, exc, cache, connection_id, message) ==
    [ret |-> ok, exc |-> exc, cache |-> cache,
     entry |-> [connectionId |-> connection_id, message |-> message, ok |-> ok]]

\* The try block of send_message once get_apigw_client has ended in g: the
\* post is made when the client was built; True when nothing was raised.
Delivered(g, connection_id, open) ==
    g.exc = NoExc /\ post_to_connection(g.client, connection_id, open)

\* send_message under a mutation: the except block raises again.
send_message_raising(connection_id, message, event, cache, open) ==
    SendResult(Delivered(get_apigw_client(event, cache), connection_id, open),
               IF Delivered(get_apigw_client(event, cache), connection_id, open)
               THEN NoExc ELSE "GoneException",
               get_apigw_client(event, cache).cache, connection_id, message)

\* send_message under a mutation: the client is built before the try block,
\* so a failure to build it propagates.
send_message_build_unguarded(connection_id, message, event, cache, open) ==
    SendResult(Delivered(get_apigw_client(event, cache), connection_id, open),
               get_apigw_client(event, cache).exc,
               get_apigw_client(event, cache).cache, connection_id, message)

\* send_message: every exception of the build or the post is caught; the
\* result is True or False, never an exception.
send_message(connection_id, message, event, cache, open) ==
    SendResult(Delivered(get_apigw_client(event, cache), connection_id, open),
               NoExc,
               get_apigw_client(event, cache).cache, connection_id, message)

\* ------------------------------------------------------ agent invocation client
\* bytes.decode('utf-8')
decode(b) == IF b.valid THEN [exc |-> NoExc, value |-> b.text]
             ELSE [exc |-> "UnicodeDecodeError", value |-> ""]

\* One turn of the loop under a mutation: a payload that does not decode is
\* skipped.
collect_fragment_skipping(before, ev) ==
    IF before.exc # NoExc THEN before
    ELSE IF "chunk" \in DOMAIN ev /\ "bytes" \in DOMAIN ev["chunk"]
         THEN IF decode(ev["chunk"]["bytes"]).exc # NoExc
              THEN before
              ELSE [exc |-> NoExc, text |-> before.text \o decode(ev["chunk"]["bytes"]).value]
         ELSE before

\* One turn of the loop over response['completion']: before is the exception
\* that ended the loop or the text so far.
collect_fragment(before, ev) ==
    IF before.exc # NoExc THEN before
    ELSE IF "chunk" \in DOMAIN ev /\ "bytes" \in DOMAIN ev["chunk"]
         THEN IF decode(ev["chunk"]["bytes"]).exc # NoExc
              THEN [exc |-> decode(ev["chunk"]["bytes"]).exc, text |-> ""]
              ELSE [exc |-> NoExc, text |-> before.text \o decode(ev["chunk"]["bytes"]).value]
         ELSE before

\* The loop over response['completion']: after[i] is the state after the
\* first i fragments.
collect(completion, response_text) ==
    LET after[i \in 0..Len(completion)] ==
            IF i = 0 THEN [exc |-> NoExc, text |-> response_text]
            ELSE collect_fragment(after[i - 1], completion[i])
    IN after[Len(completion)]

\* invoke_agent and the loop; agent is what the endpoint does on this
\* invocation: [raises |-> the exception of invoke_agent or NoExc,
\* completion |-> the fragments it streams].
invoke_agent(agent) ==
    IF agent.raises # NoExc THEN [exc |-> agent.raises, text |-> ""]
    ELSE collect(agent.completion, "")

\* The parameters of the invoke_agent call.
AgentCall(agent_arn, message, session_id) ==
    [agentId |-> agent_arn[Len(agent_arn)], sessionId |-> session_id, inputText |-> message]

\* The try block of call_a2a_agent under a mutation: a failure is swallowed
\* and yields an empty text.
agent_result_swallowing(c, session_id, call) ==
    [exc |-> NoExc, response |-> IF c.exc # NoExc THEN "" ELSE c.text,
     sessionId |-> session_id, invoked |-> <<[call |-> call, exc |-> c.exc]>>]

\* The try block of call_a2a_agent once the invocation has ended in c: the
\* text and the session id, or the exception raised again.  invoked is the
\* invoke_agent call made, with the exception it ended in.
agent_result(c, session_id, call) ==
    [exc |-> c.exc,
     response |-> IF c.exc # NoExc THEN None ELSE c.text,
     sessionId |-> IF c.exc # NoExc THEN None ELSE session_id,
     invoked |-> <<[call |-> call, exc |-> c.exc]>>]

\* call_a2a_agent: message[:100] raises TypeError for None before anything
\* is invoked.
call_a2a_agent(agent_arn, message, session_id, agent) ==
    IF message = None
    THEN [exc |-> "TypeError", response |-> None, sessionId |-> None, invoked |-> <<>>]
    ELSE agent_result(invoke_agent(agent), session_id,
                      AgentCall(agent_arn, message, session_id))

\* ------------------------------------------------------------ notifications
connected_message ==
    [type |-> "connected", message |-> "Connected to Agentic-Architect"]

acknowledged_message(request_id, agent_type) ==
    [type |-> "acknowledged", requestId |-> request_id, agentType |-> agent_type]

progress_message(request_id) ==
    [type |-> "progress", requestId |-> request_id, message |-> "Agent is thinking..."]

response_message(request_id, agent_type, result) ==
    [type |-> "response", requestId |-> request_id, agentType |-> agent_type,
     response |-> result.response, sessionId |-> result.sessionId]

error_message(request_id, e) ==
    [type |-> "error", requestId |-> request_id, error |-> e]

\* What one run of lambda_handler did: the exception that left it (NoExc when
\* it returned), its status, the client cache afterwards, the send attempts in
\* order, the number of lambda_client.invoke calls made and the payloads those
\* calls handed over, and the invoke_agent calls made.
Ret(exc, statusCode, cache, sends, invokes, scheduled, invoked) ==
    [exc |-> exc, statusCode |-> statusCode, cache |-> cache, sends |-> sends,
     invokes |-> invokes, scheduled |-> scheduled, invoked |-> invoked]

\* ------------------------------------------------------- asynchronous entry
AsyncKeys == {"agentType", "message", "requestId", "sessionId", "connectionId", "event"}

\* The resolution under a mutation: an unrecognized type falls back to the
\* onboarding agent.
resolve_agent_arn_fallback_onboarding(agent_type) ==
    IF agent_type = "provisioning" THEN PROVISIONING_AGENT_ARN ELSE ONBOARDING_AGENT_ARN

\* agent_arn = ONBOARDING_AGENT_ARN if agent_type == 'onboarding' else PROVISIONING_AGENT_ARN
resolve_agent_arn(agent_type) ==
    IF agent_type = "onboarding" THEN ONBOARDING_AGENT_ARN ELSE PROVISIONING_AGENT_ARN

\* The end of the asynchronous entry after its except block sent the error (s3).
async_after_error(s3, sends, invoked) ==
    IF s3.exc # NoExc
    THEN Ret(s3.exc, 0, s3.cache, sends \o <<s3.entry>>, 0, <<>>, invoked)
    ELSE Ret(NoExc, 200, s3.cache, sends \o <<s3.entry>>, 0, <<>>, invoked)

\* The except block of the asynchronous entry for the exception e, after the
\* sends and the agent calls made so far.
async_except(async_event, e, sends, invoked, cache, open) ==
    async_after_error(
        send_message(async_event["connectionId"], error_message(async_event["requestId"], e),
                     async_event["event"], cache, open),
        sends, invoked)

\* The try block after the response was sent (s2).
async_after_response(async_event, s1, result, s2, open) ==
    IF s2.exc # NoExc
    THEN async_except(async_event, s2.exc, <<s1.entry, s2.entry>>, result.invoked, s2.cache, open)
    ELSE Ret(NoExc, 200, s2.cache, <<s1.entry, s2.entry>>, 0, <<>>, result.invoked)

\* The try block under a mutation: a failed agent call is made a second time
\* before the failure is reported.
async_after_agent_retrying(async_event, s1, result, open) ==
    IF result.exc # NoExc
    THEN async_except(async_event, result.exc, <<s1.entry>>,
                      result.invoked \o result.invoked, s1.cache, open)
    ELSE async_after_response(async_event, s1, result,
             send_message(async_event["connectionId"],
                          response_message(async_event["requestId"], async_event["agentType"],
                                           result),
                          async_event["event"], s1.cache, open),
             open)

\* The try block after call_a2a_agent ended in result.
async_after_agent(async_event, s1, result, open) ==
    IF result.exc # NoExc
    THEN async_except(async_event, result.exc, <<s1.entry>>, result.invoked, s1.cache, open)
    ELSE async_after_response(async_event, s1, result,
             send_message(async_event["connectionId"],
                          response_message(async_event["requestId"], async_event["agentType"],
                                           result),
                          async_event["event"], s1.cache, open),
             open)

\* The try block under a mutation: processing stops when progress could not
\* be delivered.
async_after_progress_aborting(async_event, s1, open, agent) ==
    IF ~s1.ret
    THEN Ret(NoExc, 200, s1.cache, <<s1.entry>>, 0, <<>>, <<>>)
    ELSE async_after_agent(async_event, s1,
             call_a2a_agent(resolve_agent_arn(async_event["agentType"]),
                            async_event["message"], async_event["sessionId"], agent),
             open)

\* The try block after progress was sent (s1).
async_after_progress(async_event, s1, open, agent) ==
    IF s1.exc # NoExc
    THEN async_except(async_event, s1.exc, <<s1.entry>>, <<>>, s1.cache, open)
    ELSE async_after_agent(async_event, s1,
             call_a2a_agent(resolve_agent_arn(async_event["agentType"]),
                            async_event["message"], async_event["sessionId"], agent),
             open)

\* The branch 'async_processing' in event.  The six reads of async_event are
\* outside the try block; the try block sends progress, calls the agent and
\* sends the response; its handler sends the error; then 200.
async_entry(event, cache, open, agent) ==
    IF ~(AsyncKeys \subseteq DOMAIN event["async_processing"])
    THEN Ret("KeyError", 0, cache, <<>>, 0, <<>>, <<>>)
    ELSE async_after_progress(event["async_processing"],
             send_message(event["async_processing"]["connectionId"],
                          progress_message(event["async_processing"]["requestId"]),
                          event["async_processing"]["event"], cache, open),
             open, agent)

\* -------------------------------------------------------- synchronous entry
\* A body text is [json |-> "object", value |-> the dict], [json |-> "array"]
\* (valid JSON that is no object) or [json |-> "invalid"].
EmptyObjectText == [json |-> "object", value |-> EmptyDict]

\* json.loads
json_loads(text) ==
    IF text.json = "invalid" THEN [exc |-> "JSONDecodeError", isDict |-> FALSE, value |-> EmptyDict]
    ELSE IF text.json = "object" THEN [exc |-> NoExc, isDict |-> TRUE, value |-> text.value]
    ELSE [exc |-> NoExc, isDict |-> FALSE, value |-> EmptyDict]

\* derive_session_id under a mutation: the session id of the body is ignored.
derive_session_id_ignoring(body, request_id) ==
    "session-" \o Str(request_id)

\* session_id = body.get('sessionId', f"session-{request_id}")
derive_session_id(body, request_id) ==
    Get(body, "sessionId", "session-" \o Str(request_id))

\* What the except block did after its send s: the cache and the send.
except_sent(s) == [cache |-> s.cache, sends |-> <<s.entry>>]

\* sync_except under a mutation: the request id is read with a default, so
\* the error is sent whatever body is.
sync_except_unguarded(route_key, connection_id, bodyIsDict, body, e, event, cache, open) ==
    IF route_key = "$default"
    THEN except_sent(send_message(connection_id, error_message(Get(body, "id", None), e),
                                  event, cache, open))
    ELSE [cache |-> cache, sends |-> <<>>]

\* sync_except under a mutation: the failure is only logged.
sync_except_silent(route_key, connection_id, bodyIsDict, body, e, event, cache, open) ==
    [cache |-> cache, sends |-> <<>>]

\* The except block of the synchronous entry: for a $default event it tries to
\* send the error with body.get('id'); when body was never bound or is no dict
\* that read raises before send_message is called, and the bare except
\* swallows it, as it swallows anything send_message raises.  bodyIsDict says
\* whether body is bound to a dict.  The result is the cache and the sends.
sync_except(route_key, connection_id, bodyIsDict, body, e, event, cache, open) ==
    IF route_key = "$default" /\ bodyIsDict
    THEN except_sent(send_message(connection_id, error_message(Get(body, "id", None), e),
                                  event, cache, open))
    ELSE [cache |-> cache, sends |-> <<>>]

\* The return of the except block (x is what it did): status 500.
sync_failed(sends, invokes, x) ==
    Ret(NoExc, 500, x.cache, sends \o x.sends, invokes, <<>>, <<>>)

\* The payload of the re-invocation.
async_payload(agent_type, message, request_id, session_id, connection_id, event) ==
    [async_processing |->
        [agentType |-> agent_type, message |-> message, requestId |-> request_id,
         sessionId |-> session_id, connectionId |-> connection_id, event |-> event]]

\* The $default branch under a mutation: nothing is handed to
\* lambda_client.invoke when the acknowledgment was not delivered.
default_acknowledged_ack_gated(s1, body, payload, event, route_key, connection_id, open, invoke) ==
    IF ~s1.ret
    THEN Ret(NoExc, 200, s1.cache, <<s1.entry>>, 0, <<>>, <<>>)
    ELSE IF invoke # NoExc
         THEN sync_failed(<<s1.entry>>, 1,
                          sync_except(route_key, connection_id, TRUE, body, invoke, event,
                                      s1.cache, open))
         ELSE Ret(NoExc, 200, s1.cache, <<s1.entry>>, 1, <<payload>>, <<>>)

\* The $default branch under a mutation: an acknowledgment that was not
\* delivered is treated as a failure of the request.
default_acknowledged_ack_fatal(s1, body, payload, event, route_key, connection_id, open, invoke) ==
    IF ~s1.ret
    THEN sync_failed(<<s1.entry>>, 0,
                     sync_except(route_key, connection_id, TRUE, body, "RuntimeError", event,
                                 s1.cache, open))
    ELSE IF invoke # NoExc
         THEN sync_failed(<<s1.entry>>, 1,
                          sync_except(route_key, connection_id, TRUE, body, invoke, event,
                                      s1.cache, open))
         ELSE Ret(NoExc, 200, s1.cache, <<s1.entry>>, 1, <<payload>>, <<>>)

\* The $default branch after the acknowledgment was sent (s1): invoke is the
\* exception lambda_client.invoke raises on this call (NoExc when it accepts
\* the payload).
default_acknowledged(s1, body, payload, event, route_key, connection_id, open, invoke) ==
    IF s1.exc # NoExc
    THEN sync_failed(<<s1.entry>>, 0,
                     sync_except(route_key, connection_id, TRUE, body, s1.exc, event,
                                 s1.cache, open))
    ELSE IF invoke # NoExc
         THEN sync_failed(<<s1.entry>>, 1,
                          sync_except(route_key, connection_id, TRUE, body, invoke, event,
                                      s1.cache, open))
         ELSE Ret(NoExc, 200, s1.cache, <<s1.entry>>, 1, <<payload>>, <<>>)

\* The $default branch once the four fields are read from the body.
default_request(body, request_id, agent_type, message, session_id, event, route_key, connection_id, cache, open, invoke) ==
    default_acknowledged(
        send_message(connection_id, acknowledged_message(request_id, agent_type),
                     event, cache, open),
        body,
        async_payload(agent_type, message, request_id, session_id, connection_id, event),
        event, route_key, connection_id, open, invoke)

\* The $default branch after json.loads ended in parsed: an exception of
\* json.loads leaves body unbound, a body that is no dict raises
\* AttributeError at body.get('id').
default_parsed(parsed, event, route_key, connection_id, cache, open, invoke) ==
    IF parsed.exc # NoExc
    THEN sync_failed(<<>>, 0,
                     sync_except(route_key, connection_id, FALSE, EmptyDict, parsed.exc,
                                 event, cache, open))
    ELSE IF ~parsed.isDict
         THEN sync_failed(<<>>, 0,
                          sync_except(route_key, connection_id, FALSE, EmptyDict,
                                      "AttributeError", event, cache, open))
         ELSE default_request(parsed.value,
                              Get(parsed.value, "id", None),
                              Get(parsed.value, "agentType", "onboarding"),
                              Get(parsed.value, "message", None),
                              derive_session_id(parsed.value, Get(parsed.value, "id", None)),
                              event, route_key, connection_id, cache, open, invoke)

\* The $default branch.
default_route(event, route_key, connection_id, cache, open, invoke) ==
    default_parsed(json_loads(Get(event, "body", EmptyObjectText)),
                   event, route_key, connection_id, cache, open, invoke)

\* The $connect branch after its send s.
connect_sent(s, event, route_key, connection_id, open) ==
    IF s.exc = NoExc
    THEN Ret(NoExc, 200, s.cache, <<s.entry>>, 0, <<>>, <<>>)
    ELSE sync_failed(<<s.entry>>, 0,
                     sync_except(route_key, connection_id, FALSE, EmptyDict, s.exc,
                                 event, s.cache, open))

\* The $connect branch.
connect_route(event, route_key, connection_id, cache, open) ==
    connect_sent(send_message(connection_id, connected_message, event, cache, open),
                 event, route_key, connection_id, open)

\* The marker, the route key and the connection of an event.
HasMarker(event) == "async_processing" \in DOMAIN event
RouteKeyOf(event) == Get(Get(event, "requestContext", EmptyDict), "routeKey", None)
ConnectionOf(event) == Get(Get(event, "requestContext", EmptyDict), "connectionId", None)

\* The WebSocket routes.
websocket_routes(event, route_key, connection_id, cache, open, invoke) ==
    IF route_key = "$connect"
    THEN connect_route(event, route_key, connection_id, cache, open)
    ELSE IF route_key = "$disconnect"
         THEN Ret(NoExc, 200, cache, <<>>, 0, <<>>, <<>>)
         ELSE IF route_key = "$default"
              THEN default_route(event, route_key, connection_id, cache, open, invoke)
              ELSE Ret(NoExc, 400, cache, <<>>, 0, <<>>, <<>>)

\* The WebSocket routes under a mutation: the last route is an else branch,
\* so every unrecognized route key is handled as $default.
websocket_routes_else_default(event, route_key, connection_id, cache, open, invoke) ==
    IF route_key = "$connect"
    THEN connect_route(event, route_key, connection_id, cache, open)
    ELSE IF route_key = "$disconnect"
         THEN Ret(NoExc, 200, cache, <<>>, 0, <<>>, <<>>)
         ELSE default_route(event, "$default", connection_id, cache, open, invoke)

\* The $default route under a mutation: the request is processed by the same
\* run instead of a re-invocation (d is what the route did).
inline_processing(d, open, agent) ==
    IF d.scheduled = <<>> THEN d
    ELSE Ret(async_entry(d.scheduled[1], d.cache, open, agent).exc,
             async_entry(d.scheduled[1], d.cache, open, agent).statusCode,
             async_entry(d.scheduled[1], d.cache, open, agent).cache,
             d.sends \o async_entry(d.scheduled[1], d.cache, open, agent).sends,
             0, <<>>,
             async_entry(d.scheduled[1], d.cache, open, agent).invoked)

\* lambda_handler under a mutation: else branch for the last route.
lambda_handler_else_default(event, cache, open, invoke, agent) ==
    IF HasMarker(event)
    THEN async_entry(event, cache, open, agent)
    ELSE websocket_routes_else_default(event, RouteKeyOf(event), ConnectionOf(event),
                                       cache, open, invoke)

\* lambda_handler under a mutation: the request is processed inline.
lambda_handler_inline(event, cache, open, invoke, agent) ==
    IF HasMarker(event)
    THEN async_entry(event, cache, open, agent)
    ELSE inline_processing(websocket_routes(event, RouteKeyOf(event), ConnectionOf(event),
                                            cache, open, invoke),
                           open, agent)

\* lambda_handler(event, context): the asynchronous entry when the event has
\* the marker, the WebSocket routes otherwise.
lambda_handler(event, cache, open, invoke, agent) ==
    IF HasMarker(event)
    THEN async_entry(event, cache, open, agent)
    ELSE websocket_routes(event, RouteKeyOf(event), ConnectionOf(event), cache, open, invoke)

\* ------------------------------------------------------------- environment
Stage == "prod"
Domains == {"d1"}
Conns == {"c1"}

\* requestContext of a gateway event
Ctx(rk, c, d) == [routeKey |-> rk, connectionId |-> c, domainName |-> d, stage |-> Stage]

\* The endpoint a gateway event comes from.
EndpointOf(ctx) == "https://" \o ctx["domainName"] \o "/" \o ctx["stage"]

\* The connections that can be open on the gateway.
Connections == {[endpoint |-> "https://" \o d \o "/" \o Stage, connectionId |-> c] :
                   d \in Domains, c \in Conns}

\* Request bodies: the scenario of the specification, an explicit session id,
\* an unrecognized and an omitted agentType, a missing message, a missing id.
ObjectBodies ==
    { [id |-> "r1", agentType |-> "onboarding", message |-> "hello"],
      [id |-> "r2", agentType |-> "provisioning", message |-> "deploy", sessionId |-> "s1"],
      [id |-> "r1", agentType |-> "billing", message |-> "hello"],
      [id |-> "r2", message |-> "hello"],
      [id |-> "r1", agentType |-> "onboarding"],
      [agentType |-> "provisioning", message |-> "hello"] }

BodyTexts == {[json |-> "object", value |-> b] : b \in ObjectBodies}
                \cup {[json |-> "array", value |-> EmptyDict],
                      [json |-> "invalid", value |-> EmptyDict]}

\* Events without the marker: the three routes and an unknown one from the
\* gateway, a requestContext without a route key, an event without
\* requestContext, a $connect and a $default event whose requestContext lacks
\* the addressing fields, and $default events with each body and with none.
SyncEvents ==
    LET full(rk) == Ctx(rk, "c1", "d1")
        bare(rk) == Without(Without(full(rk), "domainName"), "stage")
        scenario == [json |-> "object",
                     value |-> [id |-> "r1", agentType |-> "onboarding", message |-> "hello"]]
    IN {[requestContext |-> full(rk)] : rk \in {"$connect", "$disconnect", "$ping", "$default"}}
       \cup {[requestContext |-> Without(full("$default"), "routeKey")],
             [body |-> scenario],
             [requestContext |-> bare("$connect")],
             [requestContext |-> bare("$default"), body |-> scenario]}
       \cup {[requestContext |-> full("$default"), body |-> b] : b \in BodyTexts}

\* Payloads of direct invocations with the marker: a complete one and one
\* that lacks a key.
DirectPayloads ==
    LET ev == [requestContext |-> Ctx("$default", "c1", "d1"),
               body |-> [json |-> "object",
                         value |-> [id |-> "r1", agentType |-> "onboarding", message |-> "hello"]]]
        p == [agentType |-> "onboarding", message |-> "hello", requestId |-> "r1",
              sessionId |-> "session-r1", connectionId |-> "c1", event |-> ev]
    IN {p, Without(p, "requestId")}

\* Events with the marker, with and without a route key next to it.
MarkerEvents ==
    {[async_processing |-> p] : p \in DirectPayloads}
    \cup {[async_processing |-> p, requestContext |-> Ctx(rk, "c1", "d1")] :
             p \in {q \in DirectPayloads : AsyncKeys \subseteq DOMAIN q},
             rk \in {"$connect", "$default"}}

\* What lambda_client.invoke can do.
InvokeOutcomes == {NoExc, "ClientError"}

\* What the agent endpoint can do on one invocation: fail, or stream a text
\* in fragments of which some carry no payload.
AgentOutcomes ==
    { [raises |-> "TimeoutError", completion |-> <<>>],
      [raises |-> NoExc,
       completion |-> << [chunk |-> [bytes |-> [text |-> "Hel", valid |-> TRUE]]],
                         [trace |-> "t"],
                         [chunk |-> [attribution |-> "a"]],
                         [chunk |-> [bytes |-> [text |-> "lo", valid |-> TRUE]]] >>] }

AnyAgent == CHOOSE a \in AgentOutcomes : TRUE

\* ------------------------------------------------------------------- state
\* One process of the function: the module is loaded once, then the handler
\* runs once per event, one run at a time.
VARIABLES
    apigw,      \* the module-level client cache of the process
    open,       \* the connections open on the gateway
    pending,    \* re-invocations accepted by lambda_client.invoke, not yet run
    calls,      \* history: the invocations of lambda_handler, in order
    sent,       \* history: the send_message calls, in order
    agentLog,   \* history: the invoke_agent calls, in order
    nEvents,    \* number of invocations started from outside
    threads,    \* the send_message calls of concurrent threads: where each is
    a2a,        \* a call of call_a2a_agent on its own: arguments and result
    stacks,     \* the stacks of the CloudFormation account, by name
    toolLog     \* history: the calls of the provisioning agent's tools

vars == <<apigw, open, pending, calls, sent, agentLog, nEvents, threads, a2a, stacks, toolLog>>

\* The state of the relay, and everything else.
relay == <<pending, calls, agentLog, nEvents>>
others == <<threads, a2a, stacks, toolLog>>

\* The threads that send, none of them sending.
Threads == {"t1", "t2"}
IdleThread == [pc |-> "idle", sends |-> <<>>]

\* No call of call_a2a_agent on its own.
NoCall == [pc |-> "none"]

Init ==
    /\ apigw = None
    /\ open = Connections
    /\ pending = {}
    /\ calls = <<>>
    /\ sent = <<>>
    /\ agentLog = <<>>
    /\ nEvents = 0
    /\ threads = [t \in Threads |-> IdleThread]
    /\ a2a = NoCall
    /\ stacks = EmptyDict
    /\ toolLog = <<>>

\* The effect of a run r of lambda_handler on event, for the request numbered
\* origin: the cache is what the run left, the histories record what it did,
\* tagged with the run and the request; rest are the re-invocations that stay
\* pending.
Record(r, event, origin, rest) ==
    /\ apigw' = r.cache
    /\ calls' = Append(calls, [origin |-> origin, event |-> event, exc |-> r.exc,
                               statusCode |-> r.statusCode, invokes |-> r.invokes,
                               scheduled |-> Len(r.scheduled)])
    /\ sent' = sent \o [i \in 1..Len(r.sends) |->
                          [call |-> Len(calls) + 1, origin |-> origin,
                           connectionId |-> r.sends[i].connectionId,
                           message |-> r.sends[i].message, ok |-> r.sends[i].ok]]
    /\ agentLog' = agentLog \o [i \in 1..Len(r.invoked) |->
                                  [call |-> Len(calls) + 1, origin |-> origin,
                                   invoke |-> r.invoked[i].call, exc |-> r.invoked[i].exc]]
    /\ pending' = rest \cup {[origin |-> origin, payload |-> r.scheduled[i]] :
                                i \in 1..Len(r.scheduled)}
    /\ UNCHANGED others

\* One run of lambda_handler on event.
Run(event, origin, invoke, agent, rest) ==
    Record(lambda_handler(event, apigw, open, invoke, agent), event, origin, rest)

\* The connection a gateway event is about.
ConnectionAt(ctx) == [endpoint |-> EndpointOf(ctx), connectionId |-> ctx["connectionId"]]
Addressed(ctx) == {"connectionId", "domainName", "stage"} \subseteq DOMAIN ctx

\* The gateway (or any caller) invokes the handler with an event without the
\* marker.  A $connect event opens the connection, a $disconnect event
\* reports a connection that has closed.
Deliver(event, invoke) ==
    /\ nEvents' = nEvents + 1
    /\ Run(event, nEvents + 1, invoke, AnyAgent, pending)
    /\ open' = IF RouteKeyOf(event) = "$connect" /\ Addressed(event["requestContext"])
               THEN open \cup {ConnectionAt(event["requestContext"])}
               ELSE IF RouteKeyOf(event) = "$disconnect" /\ Addressed(event["requestContext"])
                    THEN open \ {ConnectionAt(event["requestContext"])}
                    ELSE open

SyncInvoke(event, invoke) ==
    /\ nEvents < MaxEvents
    /\ Deliver(event, invoke)

\* A caller invokes the handler directly with an event that has the marker.
DirectInvoke(event, agent) ==
    /\ nEvents < MaxEvents
    /\ nEvents' = nEvents + 1
    /\ Run(event, nEvents + 1, NoExc, agent, pending)
    /\ UNCHANGED open

\* The platform runs a re-invocation that lambda_client.invoke accepted.
AsyncInvoke(p, agent) ==
    /\ p \in pending
    /\ Run(p.payload, p.origin, NoExc, agent, pending \ {p})
    /\ UNCHANGED <<open, nEvents>>

Next ==
    \/ \E event \in SyncEvents, invoke \in InvokeOutcomes : SyncInvoke(event, invoke)
    \/ \E event \in MarkerEvents, agent \in AgentOutcomes : DirectInvoke(event, agent)
    \/ \E p \in pending, agent \in AgentOutcomes : AsyncInvoke(p, agent)

Spec == Init /\ [][Next]_vars

\* The request pipeline alone: the gateway's $default events with a well-formed
\* body, and the $disconnect event, arrive; the platform runs every re-invocation that
\* lambda_client.invoke accepted (asynchronous invocations are queued and run).
RequestEvents ==
    {e \in SyncEvents : /\ RouteKeyOf(e) = "$default" /\ "body" \in DOMAIN e
                        /\ "domainName" \in DOMAIN e["requestContext"]
                        /\ e["body"].json = "object"
                        /\ {"id", "agentType", "message"} \subseteq DOMAIN e["body"].value}
    \cup {[requestContext |-> Ctx("$disconnect", "c1", "d1")]}

Request(event, invoke) ==
    /\ nEvents < MaxRequests
    /\ Deliver(event, invoke)

Reinvoke == \E p \in pending, agent \in AgentOutcomes : AsyncInvoke(p, agent)

RequestNext ==
    \/ \E event \in RequestEvents, invoke \in InvokeOutcomes : Request(event, invoke)
    \/ Reinvoke

RequestSpec == Init /\ [][RequestNext]_vars /\ WF_vars(Reinvoke)

\* One process that serves two gateways: events of gateway d1 about connection
\* c1 and of gateway d2 about connection c2, and a $connect event without the
\* addressing fields.
CacheEvents ==
    LET scenario == [json |-> "object",
                     value |-> [id |-> "r1", agentType |-> "onboarding", message |-> "hello"]]
        ctxs(rk) == {Ctx(rk, "c1", "d1"), Ctx(rk, "c2", "d2")}
    IN {[requestContext |-> c] : c \in ctxs("$connect") \cup ctxs("$disconnect")}
       \cup {[requestContext |-> c, body |-> scenario] : c \in ctxs("$default")}
       \cup {[requestContext |-> Without(Without(Ctx("$connect", "c1", "d1"), "domainName"),
                                         "stage")]}

CacheNext ==
    \/ \E event \in CacheEvents : SyncInvoke(event, NoExc)
    \/ Reinvoke

CacheSpec == Init /\ [][CacheNext]_vars

\* --------------------------------------------------------- concurrent sends
\* Two threads of one process run send_message at the same time.  A thread is
\* at one of the accesses get_apigw_client makes to the global: the test of
\* line 19, the construction of the client (right-hand side of line 22), the
\* store of line 22, the read of line 24; then it posts.  The other steps of
\* send_message touch nothing shared.
MaxThreadSends == 2

\* The events the threads send for: connection c1 is open on the gateway, c9
\* has gone.
RaceEvents == {[requestContext |-> Ctx("$connect", c, "d1")] : c \in {"c1", "c9"}}

\* What the store of line 22 puts into the global under a mutation: the
\* client object before its construction has finished.
stored_client_unfinished(built) == "<unfinished>"

\* What the store of line 22 puts into the global: the constructed client.
stored_client(built) == built

\* The thread ends its send_message call with the result ok.
Finished(th, ok) ==
    [pc |-> "idle",
     sends |-> Append(th.sends, [event |-> th.event, connectionId |-> th.connection_id,
                                 built |-> th.built, client |-> th.client, ok |-> ok])]

\* The thread moves to the step pc.
At(th, pc) == [th EXCEPT !.pc = pc]

\* send_message is called and calls get_apigw_client (line 29).
StartSend(t, event) ==
    /\ threads[t].pc = "idle"
    /\ Len(threads[t].sends) < MaxThreadSends
    /\ threads' = [threads EXCEPT ![t] =
                       [pc |-> "check", event |-> event, connection_id |-> ConnectionOf(event),
                        built |-> None, client |-> None, sends |-> threads[t].sends]]
    /\ UNCHANGED <<apigw, open, sent, relay, a2a, stacks, toolLog>>

\* if apigw is None (line 19)
CheckCache(t) ==
    /\ threads[t].pc = "check"
    /\ threads' = [threads EXCEPT ![t] =
                       At(threads[t], IF apigw = None THEN "build" ELSE "return")]
    /\ UNCHANGED <<apigw, open, sent, relay, a2a, stacks, toolLog>>

\* The client is constructed from the domain and the stage of the event
\* (lines 20-23, before the store); a KeyError ends send_message with False.
BuildClient(t) ==
    /\ threads[t].pc = "build"
    /\ threads' = [threads EXCEPT ![t] =
                       IF get_apigw_client(threads[t].event, None).exc # NoExc
                       THEN Finished(threads[t], FALSE)
                       ELSE [At(threads[t], "assign") EXCEPT
                                !.built = get_apigw_client(threads[t].event, None).client]]
    /\ UNCHANGED <<apigw, open, sent, relay, a2a, stacks, toolLog>>

\* apigw = ... (the store of line 22)
AssignCache(t) ==
    /\ threads[t].pc = "assign"
    /\ apigw' = stored_client(threads[t].built)
    /\ threads' = [threads EXCEPT ![t] = At(threads[t], "return")]
    /\ UNCHANGED <<open, sent, relay, a2a, stacks, toolLog>>

\* return apigw (line 24): the global is read again.
ReturnClient(t) ==
    /\ threads[t].pc = "return"
    /\ threads' = [threads EXCEPT ![t] = [At(threads[t], "post") EXCEPT !.client = apigw]]
    /\ UNCHANGED <<apigw, open, sent, relay, a2a, stacks, toolLog>>

\* post_to_connection and the return of send_message (lines 30-36).
PostMessage(t) ==
    /\ threads[t].pc = "post"
    /\ threads' = [threads EXCEPT ![t] =
                       Finished(threads[t],
                                post_to_connection(threads[t].client, threads[t].connection_id,
                                                   open))]
    /\ UNCHANGED <<apigw, open, sent, relay, a2a, stacks, toolLog>>

RaceNext ==
    \E t \in Threads :
        \/ \E event \in RaceEvents : StartSend(t, event)
        \/ CheckCache(t)
        \/ BuildClient(t)
        \/ AssignCache(t)
        \/ ReturnClient(t)
        \/ PostMessage(t)

RaceSpec == Init /\ [][RaceNext]_vars

\* ------------------------------------------------- call_a2a_agent on its own
\* The longest stream of fragments.
MaxFragments == 3

\* The fragments of a stream: one without a chunk, a chunk without bytes, two
\* payloads that decode and one that does not.
Fragments ==
    { [trace |-> "t"],
      [chunk |-> [attribution |-> "a"]],
      [chunk |-> [bytes |-> [text |-> "a", valid |-> TRUE]]],
      [chunk |-> [bytes |-> [text |-> "b", valid |-> TRUE]]],
      [chunk |-> [bytes |-> [text |-> "?", valid |-> FALSE]]] }

\* What the endpoint can do: invoke_agent raises, or it returns a stream.
Streams ==
    {[raises |-> "TimeoutError", completion |-> <<>>]}
    \cup {[raises |-> NoExc, completion |-> c] :
             c \in UNION {[1..n -> Fragments] : n \in 0..MaxFragments}}

\* The calls: a message or None, a session id, an endpoint.
A2ACalls ==
    {[pc |-> "call", agent |-> ag, message |-> m, session_id |-> "s1",
      result |-> [exc |-> NoExc, response |-> None, sessionId |-> None, invoked |-> <<>>]] :
        ag \in Streams, m \in {"hello", None}}

StreamInit ==
    /\ apigw = None
    /\ open = Connections
    /\ pending = {}
    /\ calls = <<>>
    /\ sent = <<>>
    /\ agentLog = <<>>
    /\ nEvents = 0
    /\ threads = [t \in Threads |-> IdleThread]
    /\ a2a \in A2ACalls
    /\ stacks = EmptyDict
    /\ toolLog = <<>>

\* call_a2a_agent runs on the arguments.
CallAgent ==
    /\ a2a.pc = "call"
    /\ a2a' = [a2a EXCEPT !.pc = "done",
                          !.result = call_a2a_agent(ONBOARDING_AGENT_ARN, a2a.message,
                                                    a2a.session_id, a2a.agent)]
    /\ UNCHANGED <<apigw, open, sent, relay, threads, stacks, toolLog>>

StreamNext == CallAgent

StreamSpec == StreamInit /\ [][StreamNext]_vars

\* ------------------------------------------------ provisioning agent tools
\* deploy_cfn_stack and get_stack_status of agents/provisioning_agent.py and
\* the CloudFormation account they talk to.  A tool call is one step; what
\* the service does during the call is drawn from its possible outcomes.
MaxToolCalls == 3

StackNames == {"app"}

\* d with key k set to v
With(d, k, v) == [x \in (DOMAIN d) \cup {k} |-> IF x = k THEN v ELSE d[x]]

\* str() of a datetime
StrDateTime(x) == x.date \o " " \o x.time

\* The description the service keeps of a stack it has just been asked to
\* create, and the outputs of a stack that is complete.
NewStack(name) ==
    [StackName |-> name, StackId |-> "id-" \o name, StackStatus |-> "CREATE_IN_PROGRESS",
     CreationTime |-> [date |-> "2026-01-01", time |-> "00:00:00"]]

StackOutputs ==
    << [OutputKey |-> "BucketName", OutputValue |-> "b", Description |-> "the bucket"],
       [OutputKey |-> "Url", OutputValue |-> "u"] >>

\* cfn.describe_stacks(StackName=...): fault is the exception the service
\* raises whatever the stack (NoExc for none); a stack that does not exist
\* is a ClientError.
describe_stacks(stack_name, account, fault) ==
    IF fault # NoExc
    THEN [exc |-> fault, response |-> EmptyDict, account |-> account]
    ELSE IF stack_name \in DOMAIN account
         THEN [exc |-> NoExc, response |-> [Stacks |-> <<account[stack_name]>>],
               account |-> account]
         ELSE [exc |-> "ClientError", response |-> EmptyDict, account |-> account]

\* cfn.create_stack(**params)
create_stack(params, account, fault) ==
    IF fault # NoExc
    THEN [exc |-> fault, response |-> EmptyDict, account |-> account]
    ELSE IF params["StackName"] \in DOMAIN account
         THEN [exc |-> "AlreadyExistsException", response |-> EmptyDict, account |-> account]
         ELSE [exc |-> NoExc, response |-> [StackId |-> NewStack(params["StackName"])["StackId"]],
               account |-> With(account, params["StackName"], NewStack(params["StackName"]))]

\* cfn.update_stack(**params)
update_stack(params, account, fault) ==
    IF fault # NoExc
    THEN [exc |-> fault, response |-> EmptyDict, account |-> account]
    ELSE IF params["StackName"] \notin DOMAIN account
         THEN [exc |-> "ClientError", response |-> EmptyDict, account |-> account]
         ELSE [exc |-> NoExc, response |-> [StackId |-> account[params["StackName"]]["StackId"]],
               account |-> With(account, params["StackName"],
                                With(account[params["StackName"]], "StackStatus",
                                     "UPDATE_IN_PROGRESS"))]

\* What one call of a tool did: the exception that left it (NoExc when it
\* returned), the dict it returned, the calls it made to the service and the
\* account afterwards.
ToolRet(exc, ret, api, account) == [exc |-> exc, ret |-> ret, api |-> api, account |-> account]

\* A call to the service with what it ended in.
ApiCall(op, r) == [op |-> op, exc |-> r.exc, response |-> r.response]

\* The parameters of create_stack and update_stack; capabilities is a list,
\* the empty one when the argument is None or empty.
deploy_params(stack_name, template_body, capabilities) ==
    [StackName |-> stack_name, TemplateBody |-> template_body,
     Capabilities |-> IF Len(capabilities) > 0 THEN capabilities
                      ELSE <<"CAPABILITY_IAM", "CAPABILITY_NAMED_IAM">>]

\* The except block of deploy_cfn_stack.
deploy_failed(e, api, account) ==
    ToolRet(NoExc, [success |-> FALSE, error |-> e], api, account)

\* The end of deploy_cfn_stack once create_stack or update_stack (op) ended in m.
deploy_result(stack_name, action, op, lookup, m) ==
    IF m.exc # NoExc
    THEN deploy_failed(m.exc, <<lookup, ApiCall(op, m)>>, m.account)
    ELSE ToolRet(NoExc,
                 [success |-> TRUE, action |-> action, stack_id |-> m.response["StackId"],
                  stack_name |-> stack_name],
                 <<lookup, ApiCall(op, m)>>, m.account)

\* deploy_cfn_stack under a mutation: the stack is created whatever the
\* lookup said.
deploy_after_lookup_always_create(stack_name, params, d, later, fault) ==
    deploy_result(stack_name, "created", "create_stack", ApiCall("describe_stacks", d),
                  create_stack(params, later, fault))

\* deploy_cfn_stack once describe_stacks ended in d: stack_exists is whether
\* it raised nothing; later is the account at the time of the second call,
\* fault what the service raises on it.
deploy_after_lookup(stack_name, params, d, later, fault) ==
    IF d.exc = NoExc
    THEN deploy_result(stack_name, "updated", "update_stack", ApiCall("describe_stacks", d),
                       update_stack(params, later, fault))
    ELSE deploy_result(stack_name, "created", "create_stack", ApiCall("describe_stacks", d),
                       create_stack(params, later, fault))

\* deploy_cfn_stack; env is what boto3.client, describe_stacks and the second
\* call raise of their own.
deploy_cfn_stack(stack_name, template_body, capabilities, account, later, env) ==
    IF env.client # NoExc
    THEN deploy_failed(env.client, <<>>, account)
    ELSE deploy_after_lookup(stack_name,
                             deploy_params(stack_name, template_body, capabilities),
                             describe_stacks(stack_name, account, env.lookup),
                             later, env.change)

\* The outputs list get_stack_status builds.
stack_outputs(stack) ==
    [i \in 1..Len(Get(stack, "Outputs", <<>>)) |->
        [key |-> stack["Outputs"][i]["OutputKey"],
         value |-> stack["Outputs"][i]["OutputValue"],
         description |-> Get(stack["Outputs"][i], "Description", "")]]

\* The except block of get_stack_status under a mutation: the exception is
\* raised again.
status_failed_raising(e, api, account) ==
    ToolRet(e, [raised |-> e], api, account)

\* The except block of get_stack_status.
status_failed(e, api, account) ==
    ToolRet(NoExc, [success |-> FALSE, error |-> e], api, account)

\* get_stack_status once describe_stacks ended in d.
status_after_lookup(stack_name, d, account) ==
    IF d.exc # NoExc
    THEN status_failed(d.exc, <<ApiCall("describe_stacks", d)>>, account)
    ELSE ToolRet(NoExc,
                 [success |-> TRUE, stack_name |-> stack_name,
                  status |-> d.response["Stacks"][1]["StackStatus"],
                  status_reason |-> Get(d.response["Stacks"][1], "StackStatusReason", ""),
                  outputs |-> stack_outputs(d.response["Stacks"][1]),
                  creation_time |-> StrDateTime(d.response["Stacks"][1]["CreationTime"])],
                 <<ApiCall("describe_stacks", d)>>, account)

\* get_stack_status
get_stack_status(stack_name, account, env) ==
    IF env.client # NoExc
    THEN status_failed(env.client, <<>>, account)
    ELSE status_after_lookup(stack_name, describe_stacks(stack_name, account, env.lookup),
                             account)

\* What boto3.client and the service can raise of their own on one tool call.
ToolEnvs ==
    [client : {NoExc, "NoRegionError"}, lookup : {NoExc, "EndpointConnectionError"},
     change : {NoExc, "EndpointConnectionError"}]

\* The account at the time of the second call of deploy_cfn_stack: as it was
\* at the lookup, or with the stack deleted or created by someone else since.
LaterAccounts(account, stack_name) ==
    {account,
     IF stack_name \in DOMAIN account THEN Without(account, stack_name)
     ELSE With(account, stack_name, NewStack(stack_name))}

\* The call r of a tool is recorded; existed and existedLater say whether the
\* stack existed when the call began and at the time of its second call.
LogTool(tool, stack_name, r, later) ==
    /\ stacks' = r.account
    /\ toolLog' = Append(toolLog,
                         [tool |-> tool, stack_name |-> stack_name, exc |-> r.exc,
                          ret |-> r.ret, api |-> r.api,
                          existed |-> stack_name \in DOMAIN stacks,
                          existedLater |-> stack_name \in DOMAIN later])
    /\ UNCHANGED <<apigw, open, sent, relay, threads, a2a>>

DeployStack(stack_name, capabilities, later, env) ==
    /\ Len(toolLog) < MaxToolCalls
    /\ LogTool("deploy_cfn_stack", stack_name,
               deploy_cfn_stack(stack_name, "template", capabilities, stacks, later, env),
               later)

GetStatus(stack_name, env) ==
    /\ Len(toolLog) < MaxToolCalls
    /\ LogTool("get_stack_status", stack_name, get_stack_status(stack_name, stacks, env),
               stacks)

\* The service finishes the operation on a stack: it completes with its
\* outputs, or it is rolled back with a reason.
Settle(stack_name, completes) ==
    /\ stack_name \in DOMAIN stacks
    /\ stacks[stack_name]["StackStatus"] \in {"CREATE_IN_PROGRESS", "UPDATE_IN_PROGRESS"}
    /\ stacks' = With(stacks, stack_name,
                      IF completes
                      THEN With(With(stacks[stack_name], "StackStatus", "CREATE_COMPLETE"),
                                "Outputs", StackOutputs)
                      ELSE With(With(stacks[stack_name], "StackStatus", "ROLLBACK_COMPLETE"),
                                "StackStatusReason", "failed"))
    /\ UNCHANGED <<apigw, open, sent, relay, threads, a2a, toolLog>>

ToolNext ==
    \/ \E n \in StackNames, c \in {<<>>, <<"CAPABILITY_IAM">>}, env \in ToolEnvs :
           \E later \in LaterAccounts(stacks, n) : DeployStack(n, c, later, env)
    \/ \E n \in StackNames, env \in ToolEnvs : GetStatus(n, env)
    \/ \E n \in StackNames, completes \in BOOLEAN : Settle(n, completes)

ToolSpec == Init /\ [][ToolNext]_vars

\* ---------------------------------------------------------------- histories
Calls == DOMAIN calls
Sent == DOMAIN sent

\* The run k handled a $default event of the gateway.
IsDefaultCall(k) == ~HasMarker(calls[k].event) /\ RouteKeyOf(calls[k].event) = "$default"

\* The body of the event is a JSON object.
HasObjectBody(event) == Get(event, "body", EmptyObjectText).json = "object"
BodyOf(event) == Get(event, "body", EmptyObjectText).value

\* The body is well formed: an object with id, agentType and message.
WellFormed(event) ==
    HasObjectBody(event) /\ {"id", "agentType", "message"} \subseteq DOMAIN BodyOf(event)

\* The sends of a type made for a request, and by a run.
SentFor(o, types) == {i \in Sent : sent[i].origin = o /\ sent[i].message.type \in types}
SentBy(k) == {i \in Sent : sent[i].call = k}

Terminal == {"response", "error"}

\* ------------------------------------------------------------------ claims

\* C1: for every $default request with a well-formed body exactly one
\* 'acknowledged' notification is sent, never more than one terminal
\* notification ('response' or 'error') is sent, exactly one has been sent once
\* no re-invocation for the request is pending, and under the platform's
\* fairness one is eventually sent: whatever the agent and lambda_client.invoke do.
C1_Counts ==
    \A k \in Calls :
        IsDefaultCall(k) /\ WellFormed(calls[k].event) =>
            LET o == calls[k].origin IN
            /\ Cardinality(SentFor(o, {"acknowledged"})) = 1
            /\ Cardinality(SentFor(o, Terminal)) <= 1
            /\ (\A p \in pending : p.origin # o) => Cardinality(SentFor(o, Terminal)) = 1

\* Every well-formed request received so far has its terminal notification.
C1_Answered ==
    \A k \in Calls :
        IsDefaultCall(k) /\ WellFormed(calls[k].event) =>
            Cardinality(SentFor(calls[k].origin, Terminal)) = 1

C1_OneAckOneTerminal == []C1_Counts /\ []<>C1_Answered

\* A well-formed request whose re-invocation ran and one whose scheduling failed.
C1_Witness ==
    /\ \E k \in Calls : /\ IsDefaultCall(k) /\ WellFormed(calls[k].event)
                        /\ calls[k].scheduled = 1
                        /\ SentFor(calls[k].origin, Terminal) # {}
    /\ \E k \in Calls : /\ IsDefaultCall(k) /\ WellFormed(calls[k].event)
                        /\ calls[k].invokes = 1 /\ calls[k].scheduled = 0

\* The run that received request o, and the request id the client gave it
\* (the id of the payload for a direct invocation).
FirstCall(o) == CHOOSE k \in Calls : calls[k].origin = o /\ \A j \in Calls : calls[j].origin = o => k <= j

RequestIdOf(o) ==
    LET e == calls[FirstCall(o)].event IN
    IF HasMarker(e) THEN Get(e["async_processing"], "requestId", None)
    ELSE Get(BodyOf(e), "id", None)

\* Request o came in as a $default event.
IsDefaultRequest(o) == \E k \in Calls : calls[k].origin = o /\ IsDefaultCall(k)

\* C2: for one request, 'acknowledged' is sent before 'progress' and before
\* the terminal notification, and 'progress' before the terminal one: no
\* progress and no terminal notification of a $default request is sent
\* unless its acknowledgment was sent earlier.
C2_AckProgressTerminalOrder ==
    \A i \in Sent :
        LET o == sent[i].origin
            ty == sent[i].message.type
        IN IsDefaultRequest(o) =>
            /\ ty \in {"progress"} \cup Terminal =>
                   \E j \in 1..(i - 1) : sent[j].origin = o /\ sent[j].message.type = "acknowledged"
            /\ ty \in Terminal =>
                   \A j \in SentFor(o, {"progress"}) : j < i

\* A request with all three notifications, and one whose only terminal
\* notification is the error of the synchronous entry.
C2_Witness ==
    /\ \E o \in 1..nEvents : /\ IsDefaultRequest(o)
                             /\ SentFor(o, {"acknowledged"}) # {}
                             /\ SentFor(o, {"progress"}) # {}
                             /\ SentFor(o, {"response"}) # {}
    /\ \E o \in 1..nEvents : /\ IsDefaultRequest(o)
                             /\ SentFor(o, {"error"}) # {}
                             /\ SentFor(o, {"progress"}) = {}

\* C3: when invoke_agent (or the stream it returns) raises in the asynchronous
\* entry, that run sends an 'error' notification whose requestId is the id of
\* the originating request, and no 'response' is ever sent for the request.
C3_AgentFailureIsError ==
    \A a \in DOMAIN agentLog :
        agentLog[a].exc # NoExc =>
            /\ \E i \in SentBy(agentLog[a].call) :
                   /\ sent[i].message.type = "error"
                   /\ sent[i].message.requestId = RequestIdOf(agentLog[a].origin)
                   /\ sent[i].message.error = agentLog[a].exc
            /\ SentFor(agentLog[a].origin, {"response"}) = {}

\* The agent failed for a request that came through the gateway with an id.
C3_Witness ==
    \E a \in DOMAIN agentLog :
        /\ agentLog[a].exc = "TimeoutError"
        /\ IsDefaultRequest(agentLog[a].origin)
        /\ RequestIdOf(agentLog[a].origin) = "r2"
        /\ SentFor(agentLog[a].origin, {"error"}) # {}

\* C4: a $connect event returns 200 and makes exactly one send, 'connected',
\* to the connection of the event, delivered or not; a $disconnect event
\* returns 200 and sends nothing.
C4_ConnectAndDisconnect ==
    \A k \in Calls :
        ~HasMarker(calls[k].event) =>
            /\ RouteKeyOf(calls[k].event) = "$connect" =>
                   /\ calls[k].exc = NoExc /\ calls[k].statusCode = 200
                   /\ Cardinality(SentBy(k)) = 1
                   /\ \A i \in SentBy(k) :
                          /\ sent[i].message.type = "connected"
                          /\ sent[i].connectionId = ConnectionOf(calls[k].event)
            /\ RouteKeyOf(calls[k].event) = "$disconnect" =>
                   /\ calls[k].exc = NoExc /\ calls[k].statusCode = 200
                   /\ SentBy(k) = {}

\* A $disconnect, then a $connect whose notification could not be delivered.
C4_Witness ==
    /\ \E k \in Calls : ~HasMarker(calls[k].event) /\ RouteKeyOf(calls[k].event) = "$disconnect"
    /\ \E k \in Calls : /\ ~HasMarker(calls[k].event)
                        /\ RouteKeyOf(calls[k].event) = "$connect"
                        /\ \E i \in SentBy(k) : ~sent[i].ok

\* C5: an event without the marker whose route key is none of the three, or
\* is missing, returns 400, sends nothing and schedules nothing.
C5_UnknownRoute ==
    \A k \in Calls :
        /\ ~HasMarker(calls[k].event)
        /\ RouteKeyOf(calls[k].event) \notin {"$connect", "$disconnect", "$default"}
        => /\ calls[k].exc = NoExc /\ calls[k].statusCode = 400
           /\ SentBy(k) = {}
           /\ calls[k].invokes = 0 /\ calls[k].scheduled = 0
           /\ \A p \in pending : p.origin # calls[k].origin

\* An unknown route key and an event without any.
C5_Witness ==
    /\ \E k \in Calls : ~HasMarker(calls[k].event) /\ RouteKeyOf(calls[k].event) = "$ping"
    /\ \E k \in Calls : ~HasMarker(calls[k].event) /\ RouteKeyOf(calls[k].event) = None

\* The status of a run when every delivery succeeds: 500 when
\* lambda_client.invoke failed, 200 otherwise.
NormalStatus(k) ==
    IF IsDefaultCall(k) /\ calls[k].invokes = 1 /\ calls[k].scheduled = 0 THEN 500 ELSE 200

\* C6: a run of lambda_handler in which a delivery failed (send_message
\* returned False: the connection is closed or the client could not be built)
\* raises nothing and returns the status it returns when deliveries succeed.
C6_DeliveryFailureNotFatal ==
    \A k \in Calls :
        (\E i \in SentBy(k) : ~sent[i].ok) =>
            /\ calls[k].exc = NoExc
            /\ calls[k].statusCode = NormalStatus(k)

\* Failed deliveries of 'connected', 'acknowledged', 'progress' and 'response',
\* one of them because the client could not be built.
C6_Witness ==
    /\ \A ty \in {"connected", "acknowledged", "progress", "response"} :
           \E i \in Sent : sent[i].message.type = ty /\ ~sent[i].ok
    /\ apigw = None

\* C7 as claimed: every $default event that fails in the synchronous entry
\* (status 500) has an 'error' notification attempted with the request id and
\* the failure description.
C7_SyncFailureSendsError ==
    \A k \in Calls :
        IsDefaultCall(k) /\ calls[k].statusCode = 500 =>
            \E i \in SentBy(k) : /\ sent[i].message.type = "error"
                                 /\ sent[i].message.requestId = RequestIdOf(calls[k].origin)
                                 /\ sent[i].message.error # NoExc

\* C8 as claimed: every run with the marker returns 200 and raises nothing.
C8_AsyncAlways200 ==
    \A k \in Calls :
        HasMarker(calls[k].event) => calls[k].exc = NoExc /\ calls[k].statusCode = 200

\* C9 as claimed: the synchronous entry sends only 'acknowledged' for a
\* $default event.
C9_SyncSendsOnlyAck ==
    \A k \in Calls :
        IsDefaultCall(k) => \A i \in SentBy(k) : sent[i].message.type = "acknowledged"

\* C9 amended: the synchronous entry sends 'acknowledged' and, only when
\* lambda_client.invoke failed, an 'error' of its own; it invokes no agent;
\* every agent invocation happens in a run with the marker that starts after
\* the synchronous run of its request has returned; every 'response' is sent
\* by a run with the marker, so the acknowledgment and the result of a request
\* are sent by two runs.
C9_AckAndResultSeparate ==
    /\ \A k \in Calls :
          IsDefaultCall(k) =>
              /\ \A i \in SentBy(k) :
                     \/ sent[i].message.type = "acknowledged"
                     \/ /\ sent[i].message.type = "error"
                        /\ calls[k].invokes = 1 /\ calls[k].scheduled = 0
              /\ \A a \in DOMAIN agentLog : agentLog[a].call # k
    /\ \A a \in DOMAIN agentLog :
          /\ HasMarker(calls[agentLog[a].call].event)
          /\ FirstCall(agentLog[a].origin) <= agentLog[a].call
          /\ IsDefaultRequest(agentLog[a].origin) =>
                 FirstCall(agentLog[a].origin) < agentLog[a].call
    /\ \A i \in Sent :
          sent[i].message.type = "response" => HasMarker(calls[sent[i].call].event)
    /\ \A i, j \in Sent :
          /\ sent[i].origin = sent[j].origin
          /\ sent[i].message.type = "acknowledged"
          /\ sent[j].message.type = "response"
          => sent[i].call < sent[j].call

\* A request acknowledged by the synchronous run and answered by a later run,
\* and a request whose scheduling failed.
C9_Witness ==
    /\ \E i, j \in Sent : /\ sent[i].origin = sent[j].origin
                          /\ sent[i].message.type = "acknowledged"
                          /\ sent[j].message.type = "response"
    /\ \E k \in Calls : /\ IsDefaultCall(k)
                        /\ \E i \in SentBy(k) : sent[i].message.type = "error"

\* The session id the claim gives a body.
C10_Expected(body) ==
    IF "sessionId" \in DOMAIN body THEN body["sessionId"]
    ELSE IF "id" \in DOMAIN body THEN "session-" \o body["id"] ELSE "session-None"

\* C10: without a sessionId in the body the session id handed to the
\* re-invocation, used for invoke_agent and echoed in 'response' is 'session-'
\* followed by the request id, so requests with the same id get the same one;
\* a sessionId of the body is used unchanged.
C10_SessionId ==
    \A k \in Calls :
        IsDefaultCall(k) /\ HasObjectBody(calls[k].event) =>
            LET o == calls[k].origin
                expected == C10_Expected(BodyOf(calls[k].event))
            IN /\ \A p \in pending :
                      p.origin = o => p.payload["async_processing"]["sessionId"] = expected
               /\ \A a \in DOMAIN agentLog :
                      agentLog[a].origin = o => agentLog[a].invoke.sessionId = expected
               /\ \A i \in SentFor(o, {"response"}) : sent[i].message.sessionId = expected

\* A response with the derived session id of r1 and one with the session id
\* the client sent.
C10_Witness ==
    /\ \E i \in Sent : /\ sent[i].message.type = "response"
                       /\ sent[i].message.requestId = "r1"
                       /\ sent[i].message.sessionId = "session-r1"
    /\ \E i \in Sent : /\ sent[i].message.type = "response"
                       /\ sent[i].message.sessionId = "s1"

\* The payload carries the marker and the context of the $default event e: the
\* fields read from its body, its connection and the event itself.
CarriesContext(payload, e) ==
    /\ DOMAIN payload = {"async_processing"}
    /\ DOMAIN payload["async_processing"] = AsyncKeys
    /\ payload["async_processing"]["event"] = e
    /\ payload["async_processing"]["connectionId"] = ConnectionOf(e)
    /\ payload["async_processing"]["requestId"] = Get(BodyOf(e), "id", None)
    /\ payload["async_processing"]["message"] = Get(BodyOf(e), "message", None)

\* The re-invocations of request o that wait, and the runs of those that ran.
Waiting(o) == {p \in pending : p.origin = o}
Reinvoked(o) == {j \in Calls : calls[j].origin = o /\ HasMarker(calls[j].event)}

\* C11 as claimed: every $default event has exactly one re-invocation
\* scheduled for it.
C11_ExactlyOneReinvocation ==
    \A k \in Calls : IsDefaultCall(k) => calls[k].scheduled = 1

\* C11 amended: a $default event makes one lambda_client.invoke call when its
\* body parses to a JSON object and none otherwise; a re-invocation is
\* scheduled exactly when that call succeeded (the run returns 200); it
\* carries the marker and the context of the event; it waits or has run, once
\* and never more.
C11_AtMostOneReinvocation ==
    \A k \in Calls :
        IsDefaultCall(k) =>
            /\ calls[k].invokes = IF HasObjectBody(calls[k].event) THEN 1 ELSE 0
            /\ calls[k].scheduled = IF calls[k].statusCode = 200 THEN 1 ELSE 0
            /\ calls[k].scheduled <= calls[k].invokes
            /\ Cardinality(Waiting(calls[k].origin)) + Cardinality(Reinvoked(calls[k].origin))
                   = calls[k].scheduled
            /\ \A p \in Waiting(calls[k].origin) : CarriesContext(p.payload, calls[k].event)
            /\ \A j \in Reinvoked(calls[k].origin) :
                   CarriesContext(calls[j].event, calls[k].event)

\* A $default event whose re-invocation has run and one for which nothing was
\* scheduled.
C11_Witness ==
    /\ \E k \in Calls : /\ IsDefaultCall(k) /\ calls[k].scheduled = 1
                        /\ Reinvoked(calls[k].origin) # {}
    /\ \E k \in Calls : IsDefaultCall(k) /\ calls[k].scheduled = 0

\* The runs of the asynchronous entry that read a complete payload, the
\* invoke_agent calls of a run and its sends of a type.
AsyncRuns ==
    {k \in Calls : /\ HasMarker(calls[k].event)
                   /\ AsyncKeys \subseteq DOMAIN calls[k].event["async_processing"]}
AgentCallsOf(k) == {a \in DOMAIN agentLog : agentLog[a].call = k}
SentTypes(k, types) == {i \in SentBy(k) : sent[i].message.type \in types}
AgentSucceeded(k) == \E a \in AgentCallsOf(k) : agentLog[a].exc = NoExc

\* The error notifications of run k that carry the request id of its payload
\* and a failure description.
ErrorsOf(k) ==
    {i \in SentTypes(k, {"error"}) :
        /\ sent[i].message.requestId = calls[k].event["async_processing"]["requestId"]
        /\ sent[i].message.error # NoExc}

\* C12 as claimed: a run of the asynchronous entry in which the agent call
\* failed or the response could not be delivered sends an 'error' with the
\* request id and the failure; the agent is invoked at most once per run.
C12_AnyFailureSendsError ==
    \A k \in AsyncRuns :
        /\ Cardinality(AgentCallsOf(k)) <= 1
        /\ (~AgentSucceeded(k) \/ \E i \in SentTypes(k, {"response"}) : ~sent[i].ok)
               => ErrorsOf(k) # {}

\* C12 amended: the agent is invoked at most once per run; when the agent
\* call raised (or call_a2a_agent raised before invoking it) the run sends one
\* 'error' with the request id and the exception and no 'response'; when it
\* succeeded the run sends one 'response' and no 'error', also when the
\* response could not be delivered.
C12_AgentFailureSendsErrorNoRetry ==
    \A k \in AsyncRuns :
        /\ Cardinality(AgentCallsOf(k)) <= 1
        /\ ~AgentSucceeded(k) =>
               /\ Cardinality(SentTypes(k, {"error"})) = 1
               /\ \A i \in SentTypes(k, {"error"}) :
                      /\ i \in ErrorsOf(k)
                      /\ IF AgentCallsOf(k) = {} THEN sent[i].message.error = "TypeError"
                         ELSE \E a \in AgentCallsOf(k) : sent[i].message.error = agentLog[a].exc
               /\ SentTypes(k, {"response"}) = {}
        /\ AgentSucceeded(k) =>
               /\ Cardinality(SentTypes(k, {"response"})) = 1
               /\ SentTypes(k, {"error"}) = {}

\* A run whose agent call failed and that sent the error, and a run whose
\* response could not be delivered.
C12_Witness ==
    /\ \E k \in AsyncRuns : \E a \in AgentCallsOf(k) :
           agentLog[a].exc # NoExc /\ ErrorsOf(k) # {}
    /\ \E k \in AsyncRuns : /\ AgentSucceeded(k)
                            /\ \E i \in SentTypes(k, {"response"}) : ~sent[i].ok

\* The body lacks one of the required fields.
MissingField(body) == ~({"id", "agentType", "message"} \subseteq DOMAIN body)

\* C13 as claimed: once a $default request whose body lacks id, agentType or
\* message has been processed, an 'error' with the id of the body has been
\* sent for it when the body has an id, and no terminal notification when it
\* has none.
C13_MissingFieldSurfacesError ==
    \A k \in Calls :
        /\ IsDefaultCall(k) /\ HasObjectBody(calls[k].event)
        /\ MissingField(BodyOf(calls[k].event))
        /\ Waiting(calls[k].origin) = {}
        => IF "id" \in DOMAIN BodyOf(calls[k].event)
           THEN \E i \in SentFor(calls[k].origin, {"error"}) :
                    sent[i].message.requestId = BodyOf(calls[k].event)["id"]
           ELSE SentFor(calls[k].origin, Terminal) = {}

\* The $connect events between runs j and k that open the connection again.
Reconnected(j, k) ==
    \E c \in (j + 1)..(k - 1) : /\ ~HasMarker(calls[c].event)
                                /\ RouteKeyOf(calls[c].event) = "$connect"

\* The re-invocation k of a $default request ran after a $disconnect event for
\* its connection that came after the request.
AfterDisconnect(k) ==
    /\ k \in AsyncRuns
    /\ IsDefaultRequest(calls[k].origin)
    /\ \E j \in (FirstCall(calls[k].origin) + 1)..(k - 1) :
           /\ ~HasMarker(calls[j].event)
           /\ RouteKeyOf(calls[j].event) = "$disconnect"
           /\ ConnectionOf(calls[j].event) = calls[k].event["async_processing"]["connectionId"]
           /\ ~Reconnected(j, k)

\* C14: a re-invocation that was scheduled is waiting or has run, whatever
\* events came in between; one that runs after the $disconnect event of its
\* connection still attempts 'progress', invokes the agent (when the request
\* has a message) and attempts one terminal notification; none of these
\* attempts is delivered, and the run raises nothing and returns 200.
C14_DisconnectDoesNotCancel ==
    /\ \A k \in Calls :
           IsDefaultCall(k) /\ calls[k].scheduled = 1 =>
               Waiting(calls[k].origin) # {} \/ Reinvoked(calls[k].origin) # {}
    /\ \A k \in Calls :
           AfterDisconnect(k) =>
               /\ Cardinality(SentTypes(k, {"progress"})) = 1
               /\ Cardinality(SentTypes(k, Terminal)) = 1
               /\ calls[k].event["async_processing"]["message"] # None
                      => Cardinality(AgentCallsOf(k)) = 1
               /\ \A i \in SentBy(k) : ~sent[i].ok
               /\ calls[k].exc = NoExc
               /\ calls[k].statusCode = 200

\* After the $disconnect event a re-invocation ran the agent and attempted the
\* response, and another one attempted the error.
C14_Witness ==
    \E k \in Calls :
        /\ AfterDisconnect(k)
        /\ AgentSucceeded(k)
        /\ \E i \in SentTypes(k, {"response"}) : ~sent[i].ok

\* The agent identifier the claim gives an agentType.
C16_Expected(agent_type) ==
    IF agent_type = "onboarding" THEN "ONBOARDING"
    ELSE IF agent_type = "provisioning" THEN "PROVISIONING"
    ELSE "PROVISIONING"

\* C16: every invoke_agent call of the asynchronous entry addresses the
\* onboarding agent for agentType 'onboarding', the provisioning agent for
\* 'provisioning' and the provisioning agent for every other value; the
\* agentType is the one of the request body ('onboarding' when it has none).
C16_AgentTypeResolution ==
    \A a \in DOMAIN agentLog :
        /\ agentLog[a].call \in AsyncRuns
        /\ agentLog[a].invoke.agentId =
               C16_Expected(calls[agentLog[a].call].event["async_processing"]["agentType"])
        /\ IsDefaultRequest(agentLog[a].origin) =>
               calls[agentLog[a].call].event["async_processing"]["agentType"]
                   = Get(BodyOf(calls[FirstCall(agentLog[a].origin)].event),
                         "agentType", "onboarding")

\* The agent was invoked for an unrecognized agentType, for 'onboarding' and
\* for 'provisioning'.
C16_Witness ==
    \E a \in DOMAIN agentLog :
        /\ calls[agentLog[a].call].event["async_processing"]["agentType"] = "billing"
        /\ agentLog[a].invoke.agentId = "PROVISIONING"

\* The event whose addressing context send i handed to send_message: the
\* event of the run, or the event kept in the payload of a re-invocation.
SendEvent(i) ==
    IF HasMarker(calls[sent[i].call].event)
    THEN calls[sent[i].call].event["async_processing"]["event"]
    ELSE calls[sent[i].call].event

\* The sends whose event has a domain and a stage.
AddressedSends ==
    {i \in Sent : /\ "requestContext" \in DOMAIN SendEvent(i)
                  /\ {"domainName", "stage"} \subseteq DOMAIN SendEvent(i)["requestContext"]}

\* The first of them.
FirstAddressedSend == CHOOSE i \in AddressedSends : \A j \in AddressedSends : i <= j

\* The connections of the two gateways.
GatewayConnections ==
    {ConnectionAt(e["requestContext"]) : e \in {x \in CacheEvents : Addressed(x["requestContext"])}}

\* The cache is empty before the first send that can build the client, and
\* holds the client of that send's domain and stage afterwards; a send with
\* any event gets the cached client and leaves the cache as it is; every
\* delivery went through the cached client.
C17_CacheState ==
    /\ apigw = None <=> AddressedSends = {}
    /\ apigw # None =>
           /\ apigw = EndpointOf(SendEvent(FirstAddressedSend)["requestContext"])
           /\ \A e \in CacheEvents :
                  /\ get_apigw_client(e, apigw).client = apigw
                  /\ send_message(ConnectionOf(e), connected_message, e, apigw, open).cache = apigw
           /\ \A i \in Sent :
                  sent[i].ok => [endpoint |-> apigw, connectionId |-> sent[i].connectionId]
                                    \in GatewayConnections

\* C17: the client is built on the first send (the first one whose event
\* carries a domain and a stage) and cached; once the cache is non-empty no
\* step replaces it, and every later send uses that client, built from the
\* first event's domain and stage, whatever context its own event carries.
C17_ClientBuiltOnceAndReused ==
    /\ []C17_CacheState
    /\ [][apigw # None => apigw' = apigw]_vars

\* The client was built from an event of gateway d1; a later send for an
\* event of gateway d2 used it, so the message for the open connection c2 was
\* not delivered.
C17_Witness ==
    /\ apigw = "https://d1/prod"
    /\ [endpoint |-> "https://d2/prod", connectionId |-> "c2"] \in open
    /\ \E i \in AddressedSends :
           /\ i > FirstAddressedSend
           /\ SendEvent(i)["requestContext"]["domainName"] = "d2"
           /\ sent[i].connectionId = "c2"
           /\ ~sent[i].ok

\* The clients a construction can yield for the events the threads send for.
FullyConstructed == {EndpointOf(e["requestContext"]) : e \in RaceEvents}

\* The cache is empty or holds a fully constructed client, and holds one as
\* soon as a thread has stored or found one; the client a thread posts with,
\* and posted with, is fully constructed; a finished send was delivered
\* exactly when its connection is open on the gateway of its event.
C18_CacheIntact ==
    /\ apigw \in {None} \cup FullyConstructed
    /\ \A t \in Threads :
           /\ threads[t].pc \in {"return", "post"} => apigw \in FullyConstructed
           /\ threads[t].pc = "post" => threads[t].client \in FullyConstructed
           /\ threads[t].sends # <<>> => apigw \in FullyConstructed
           /\ \A i \in DOMAIN threads[t].sends :
                  /\ threads[t].sends[i].client \in FullyConstructed
                  /\ threads[t].sends[i].ok
                         = ([endpoint |-> EndpointOf(threads[t].sends[i].event["requestContext"]),
                             connectionId |-> threads[t].sends[i].connectionId] \in open)

\* C18: under every interleaving of the sends of two threads, those that
\* both find the cache empty included, the cache only ever changes to the
\* client the storing thread constructed (the last store wins) and is never
\* emptied again; it holds a fully constructed client, every send posts with
\* a fully constructed client, and no send to an open connection fails.
C18_RaceTolerated ==
    /\ []C18_CacheIntact
    /\ [][/\ apigw # None => apigw' # None
          /\ apigw' # apigw =>
                 \E t \in Threads : /\ threads[t].pc = "assign"
                                    /\ threads'[t].pc = "return"
                                    /\ apigw' = threads[t].built]_vars

\* Both threads found the cache empty, each constructed and stored a client,
\* and both sends to the open connection were delivered.
C18_Witness ==
    \A t \in Threads :
        /\ threads[t].sends # <<>>
        /\ threads[t].sends[1].built \in FullyConstructed
        /\ threads[t].sends[1].connectionId = "c1"
        /\ threads[t].sends[1].ok

\* The fragment carries a byte payload.
Carries(ev) == "chunk" \in DOMAIN ev /\ "bytes" \in DOMAIN ev["chunk"]

\* The payloads of a stream in delivery order, and their texts joined.
Payloads(completion) == SelectSeq(completion, Carries)
Joined(payloads) ==
    LET upto[i \in 0..Len(payloads)] ==
            IF i = 0 THEN "" ELSE upto[i - 1] \o payloads[i]["chunk"]["bytes"].text
    IN upto[Len(payloads)]

\* The invocation or the decoding of a payload fails.
C19_Fails(agent) ==
    \/ agent.raises # NoExc
    \/ \E i \in DOMAIN agent.completion :
           Carries(agent.completion[i]) /\ ~agent.completion[i]["chunk"]["bytes"].valid

\* C19: when call_a2a_agent returns, response is the texts of the fragments
\* that carry a payload, joined in delivery order, and sessionId is the
\* session id it was given; it returns for every message that is a string
\* when the invocation and every decoding succeed; when invoke_agent raises
\* or a payload does not decode it raises that exception and returns
\* nothing, no partial text either.
C19_ConcatenationOrRaise ==
    a2a.pc = "done" =>
        /\ a2a.result.exc = NoExc =>
               /\ a2a.result.response = Joined(Payloads(a2a.agent.completion))
               /\ a2a.result.sessionId = a2a.session_id
        /\ ~C19_Fails(a2a.agent) /\ a2a.message # None => a2a.result.exc = NoExc
        /\ C19_Fails(a2a.agent) =>
               /\ a2a.result.exc # NoExc
               /\ a2a.message # None =>
                      a2a.result.exc = IF a2a.agent.raises # NoExc THEN a2a.agent.raises
                                       ELSE "UnicodeDecodeError"
               /\ a2a.result.response = None
               /\ a2a.result.sessionId = None

\* A stream of a payload, a fragment without payload and a second payload was
\* joined in order.
C19_Witness ==
    /\ a2a.pc = "done"
    /\ a2a.agent.raises = NoExc
    /\ Len(a2a.agent.completion) = 3
    /\ ~Carries(a2a.agent.completion[2])
    /\ a2a.result.exc = NoExc
    /\ a2a.result.response = "ab"

\* The calls of a tool, and whether the lookup of call i raised nothing.
ToolCalls(tool) == {i \in DOMAIN toolLog : toolLog[i].tool = tool}
LookedUp(i) ==
    /\ Len(toolLog[i].api) > 0
    /\ toolLog[i].api[1].op = "describe_stacks"
    /\ toolLog[i].api[1].exc = NoExc

\* C15: a call of get_stack_status raises nothing; when the lookup failed
\* (the stack does not exist, the service or the client failed) it returns
\* success = False with an 'error'; it returns success = True only after a
\* lookup that succeeded, with the status and the outputs of the stack the
\* lookup returned.
C15_StatusNeverRaises ==
    \A i \in ToolCalls("get_stack_status") :
        /\ toolLog[i].exc = NoExc
        /\ "success" \in DOMAIN toolLog[i].ret
        /\ ~toolLog[i].existed => ~LookedUp(i)
        /\ ~LookedUp(i) =>
               /\ toolLog[i].ret.success = FALSE
               /\ "error" \in DOMAIN toolLog[i].ret
               /\ toolLog[i].ret.error # NoExc
        /\ toolLog[i].ret.success =>
               /\ LookedUp(i)
               /\ toolLog[i].ret.stack_name = toolLog[i].stack_name
               /\ toolLog[i].ret.status = toolLog[i].api[1].response["Stacks"][1]["StackStatus"]
               /\ Len(toolLog[i].ret.outputs)
                      = Len(Get(toolLog[i].api[1].response["Stacks"][1], "Outputs", <<>>))
               /\ \A o \in DOMAIN toolLog[i].ret.outputs :
                      /\ toolLog[i].ret.outputs[o].key
                             = toolLog[i].api[1].response["Stacks"][1]["Outputs"][o]["OutputKey"]
                      /\ toolLog[i].ret.outputs[o].value
                             = toolLog[i].api[1].response["Stacks"][1]["Outputs"][o]["OutputValue"]

\* The status of a stack that does not exist was asked for, and the status of
\* a complete stack with its outputs.
C15_Witness ==
    /\ \E i \in ToolCalls("get_stack_status") :
           ~toolLog[i].existed /\ toolLog[i].ret.success = FALSE
    /\ \E i \in ToolCalls("get_stack_status") :
           /\ toolLog[i].ret.success
           /\ toolLog[i].ret.status = "CREATE_COMPLETE"
           /\ Len(toolLog[i].ret.outputs) = 2

\* Call i made the call op to the service; the call it made second failed.
Called(i, op) == \E c \in DOMAIN toolLog[i].api : toolLog[i].api[c].op = op
ChangeFailed(i) == Len(toolLog[i].api) = 2 /\ toolLog[i].api[2].exc # NoExc

\* C20: a call of deploy_cfn_stack raises nothing; it calls update_stack
\* exactly when its describe_stacks call raised nothing and create_stack
\* exactly when that call raised, after the lookup and never both; it
\* reports success exactly when the second call raised nothing, with action
\* 'updated' after update_stack and 'created' after create_stack; a failure
\* of the second call, the one caused by the stack having appeared or
\* disappeared since the lookup included, comes back as success = False with
\* an 'error'.
C20_DeployUpdatesOrCreates ==
    \A i \in ToolCalls("deploy_cfn_stack") :
        /\ toolLog[i].exc = NoExc
        /\ "success" \in DOMAIN toolLog[i].ret
        /\ Called(i, "update_stack") <=> LookedUp(i)
        /\ Called(i, "create_stack")
               <=> (Len(toolLog[i].api) > 0 /\ toolLog[i].api[1].op = "describe_stacks"
                    /\ toolLog[i].api[1].exc # NoExc)
        /\ Len(toolLog[i].api) \in {0, 2}
        /\ Len(toolLog[i].api) = 2 =>
               /\ toolLog[i].api[1].op = "describe_stacks"
               /\ toolLog[i].api[2].op \in {"update_stack", "create_stack"}
        /\ toolLog[i].ret.success <=> (Len(toolLog[i].api) = 2 /\ ~ChangeFailed(i))
        /\ toolLog[i].ret.success =>
               /\ toolLog[i].ret.action
                      = IF toolLog[i].api[2].op = "update_stack" THEN "updated" ELSE "created"
               /\ toolLog[i].ret.stack_name = toolLog[i].stack_name
        /\ ~toolLog[i].ret.success =>
               "error" \in DOMAIN toolLog[i].ret /\ toolLog[i].ret.error # NoExc
        /\ toolLog[i].existed /\ ~toolLog[i].existedLater /\ Called(i, "update_stack")
               => ~toolLog[i].ret.success
        /\ ~toolLog[i].existed /\ toolLog[i].existedLater /\ Called(i, "create_stack")
               => ~toolLog[i].ret.success

\* A stack was created; a later deployment found it, it disappeared before
\* update_stack was called, and the failure was returned.
C20_Witness ==
    /\ \E i \in ToolCalls("deploy_cfn_stack") :
           /\ toolLog[i].ret.success
           /\ toolLog[i].ret.action = "created"
    /\ \E i \in ToolCalls("deploy_cfn_stack") :
           /\ toolLog[i].existed /\ ~toolLog[i].existedLater
           /\ Called(i, "update_stack")
           /\ toolLog[i].ret.success = FALSE

\* Run k did what the asynchronous entry does: it attempted 'progress' and one
\* terminal notification, invoked the agent once when the payload has a
\* message, raised nothing and returned 200.
RanAsyncEntry(k) ==
    /\ Cardinality(SentTypes(k, {"progress"})) = 1
    /\ Cardinality(SentTypes(k, Terminal)) = 1
    /\ Get(calls[k].event["async_processing"], "message", None) # None
           => Cardinality(AgentCallsOf(k)) = 1
    /\ calls[k].exc = NoExc
    /\ calls[k].statusCode = 200

\* Run k did nothing the routes of the synchronous entry do: it sent neither
\* 'connected' nor 'acknowledged' and handed nothing to lambda_client.invoke.
RanNoRoute(k) ==
    /\ SentTypes(k, {"connected", "acknowledged"}) = {}
    /\ calls[k].invokes = 0
    /\ calls[k].scheduled = 0

\* C21 as claimed: every run on an event with the marker, whatever route key
\* the event carries, does what the asynchronous entry does (progress, agent
\* invocation, terminal notification, status 200) and nothing a route does.
C21_MarkerTakesPrecedence ==
    \A k \in Calls :
        HasMarker(calls[k].event) => RanAsyncEntry(k) /\ RanNoRoute(k)

\* The sends of a type by run k that were not delivered.
Undelivered(k, types) == {i \in SentTypes(k, types) : ~sent[i].ok}

\* C22 as claimed: a run of the synchronous entry whose 'acknowledged' was not
\* delivered schedules the re-invocation and returns 200; a run of the
\* asynchronous entry whose 'progress' was not delivered invokes the agent
\* and attempts a terminal notification.
C22_DeliveryFailureStillSchedules ==
    /\ \A k \in Calls :
           IsDefaultCall(k) /\ Undelivered(k, {"acknowledged"}) # {} =>
               calls[k].scheduled = 1 /\ calls[k].statusCode = 200
    /\ \A k \in AsyncRuns :
           Undelivered(k, {"progress"}) # {} =>
               /\ calls[k].event["async_processing"]["message"] # None
                      => Cardinality(AgentCallsOf(k)) = 1
               /\ SentTypes(k, Terminal) # {}

\* C22 amended: a run of the synchronous entry whose 'acknowledged' was not delivered
\* still calls lambda_client.invoke, and unless that call itself raises (the
\* run then attempts its 'error' and returns 500) the re-invocation is
\* scheduled and the run returns 200; a run of the asynchronous entry whose
\* 'progress' was not delivered still invokes the agent (when the request has
\* a message) and still attempts one terminal notification, the 'response'
\* when the agent answered.
C22_DeliveryFailureDoesNotStop ==
    /\ \A k \in Calls :
           IsDefaultCall(k) /\ Undelivered(k, {"acknowledged"}) # {} =>
               /\ calls[k].exc = NoExc
               /\ calls[k].invokes = 1
               /\ \/ /\ calls[k].scheduled = 1
                     /\ calls[k].statusCode = 200
                     /\ Waiting(calls[k].origin) # {} \/ Reinvoked(calls[k].origin) # {}
                  \/ /\ calls[k].scheduled = 0
                     /\ calls[k].statusCode = 500
                     /\ \E i \in SentTypes(k, {"error"}) : sent[i].message.error = "ClientError"
    /\ \A k \in AsyncRuns :
           Undelivered(k, {"progress"}) # {} =>
               /\ calls[k].event["async_processing"]["message"] # None
                      => Cardinality(AgentCallsOf(k)) = 1
               /\ Cardinality(SentTypes(k, Terminal)) = 1
               /\ AgentSucceeded(k) => Cardinality(SentTypes(k, {"response"})) = 1
               /\ calls[k].exc = NoExc
               /\ calls[k].statusCode = 200

\* The acknowledgment of a request was not delivered, the run returned 200
\* and scheduled the re-invocation; that one ran, its progress was not
\* delivered either, the agent answered and the response was attempted.
C22_Witness ==
    \E k \in Calls :
        /\ IsDefaultCall(k)
        /\ Undelivered(k, {"acknowledged"}) # {}
        /\ calls[k].scheduled = 1
        /\ calls[k].statusCode = 200
        /\ \E j \in Reinvoked(calls[k].origin) :
               /\ Undelivered(j, {"progress"}) # {}
               /\ AgentSucceeded(j)
               /\ SentTypes(j, {"response"}) # {}

====
